---- MODULE Spec2Model ----
(***************************************************************************)
(* Process manager and per-CPU CFS scheduler of DragonOS:                  *)
(*   kernel/src/process/mod.rs  (ProcessManager, ProcessControlBlock)      *)
(*   kernel/src/sched/cfs.rs    (CFSQueue, SchedulerCFS)                   *)
(*                                                                         *)
(* A PCB is named by a small integer.  The idle PCB of CPU c is PCB c      *)
(* (its pid is 0); the other PCBs carry the pids 1, 2, ...; pid 1 is the   *)
(* init process.                                                           *)
(***************************************************************************)
EXTENDS Integers, Sequences, FiniteSets, TLC

VARIABLES
    state,                  \* ProcessSchedulerInfo.state of every PCB
    need_sched,             \* ProcessFlags::NEED_SCHEDULE of every PCB
    virtual_runtime,        \* ProcessSchedulerInfo.virtual_runtime of every PCB
    sched_info_lock,        \* writer of the PCB's sched_info RwLock, or NoCpu
    children,               \* ProcessControlBlock.children of every PCB
    called_exit,            \* PCBs whose control is inside ProcessManager::exit
    cpu_queue,              \* CFSQueue.locked_queue of every CPU (global scheduler)
    cpu_exec_proc_jiffies,  \* CFSQueue.cpu_exec_proc_jiffies of every CPU
    current,                \* the PCB executing on every CPU (current_pcb)
    pc,                     \* where every CPU is inside a multi-step call
    arg,                    \* the PCB a CPU's wakeup call in progress is about
    ncalls,                 \* number of calls made so far
    ret,                    \* the last call completed, and its result
    ALL_PROCESS,            \* the global registry: the PCB registered under every pid
    strong_refs,            \* strong references to every PCB held outside the registry
    arch_info,              \* whether the arch_info SpinLock of every PCB is held
    SWITCH_RESULT,          \* SWITCH_RESULT of every CPU: prev_pcb and next_pcb
    INIT_FLAG,              \* the AtomicBool of ProcessManager::init
    INIT_DONE,              \* __PROCESS_MANAGEMENT_INIT_DONE
    NEXT_PID,               \* the AtomicPid of generate_pid
    handed,                 \* the pids do_create_pcb has given to PCBs, in order
    sched_entity,           \* the fields of every SchedEntity that exists
    tg_queue,               \* TaskGroup.cfs.cpu_queue of every task group that exists
    PROCESS_GROUP_MANAGER,  \* the member list of every process group that has one
    parent_pcb              \* ProcessControlBlock.parent_pcb of every PCB

vars == << state, need_sched, virtual_runtime, sched_info_lock, children,
           called_exit, cpu_queue, cpu_exec_proc_jiffies, current, pc, arg, ncalls, ret,
           ALL_PROCESS, strong_refs, arch_info, SWITCH_RESULT,
           INIT_FLAG, INIT_DONE, NEXT_PID, handed,
           sched_entity, tg_queue, PROCESS_GROUP_MANAGER, parent_pcb >>

\* the variables of the registry, and the others
regvars == << ALL_PROCESS, strong_refs >>
\* the variables of the context switch
switchvars == << arch_info, SWITCH_RESULT >>
\* the variables of the initialisation and of the creation of PCBs
bootvars == << INIT_FLAG, INIT_DONE, NEXT_PID, handed >>
\* the variables of the task groups and of the process groups
groupvars == << sched_entity, tg_queue, PROCESS_GROUP_MANAGER >>
\* the parent reference of the PCBs, written when the PCB is built (line 468)
\* and by nothing afterwards
familyvars == << parent_pcb >>
mgrvars == << switchvars, bootvars, groupvars, familyvars >>
schedvars == << state, need_sched, virtual_runtime, sched_info_lock, children,
                called_exit, cpu_queue, cpu_exec_proc_jiffies, current, arg, ncalls >>

-----------------------------------------------------------------------------
(* Bounds of the model.                                                    *)

\* the number of calls (wakeup, mark_sleep, exit, sched, timer tick,
\* enqueue_group_se) a behaviour makes; a call that has started always finishes
MaxCalls == 6

(* Program constants.                                                      *)

\* the slice update_cpu_exec_proc_jiffies hands out
TimeSlice == 10

\* 0..MAX_CPU_NUM-1, two CPUs here
CPUs == {0, 1}
\* the PCBs that are not idle PCBs: pids 1 (init), 2, 3, 4
Procs == {2, 3, 4, 5}
Pcbs == CPUs \cup Procs
\* the task groups whose scheduling entity can be handed to enqueue_group_se
Groups == {1}
ExitCodes == {0, 1}

NoCpu == -1
NoPcb == -1

\* ProcessControlBlock.pid
pid(p) == IF p \in CPUs THEN 0 ELSE p - Cardinality(CPUs) + 1
\* CFSQueue.idle_pcb of the CPU's queue
idle_pcb(c) == c
\* ProcessSchedulerInfo.on_cpu: the CPU whose queue the PCB is enqueued on
on_cpu(p) == IF p \in CPUs THEN p ELSE p \div 5
\* ProcessManager::find(Pid(1))
init_pcb == 2
\* the pids
Pids == { pid(p) : p \in Pcbs }

(* ProcessState *)
Runnable == << "Runnable" >>
Blocked(interruptible) == << "Blocked", interruptible >>
Exited(code) == << "Exited", code >>
ProcessState == {Runnable} \cup {Blocked(b) : b \in BOOLEAN}
                    \cup {Exited(x) : x \in ExitCodes}
is_runnable(s) == s[1] = "Runnable"
is_blocked(s) == s[1] = "Blocked"
is_exited(s) == s[1] = "Exited"

(* SystemError and results *)
Ok == "Ok"
EINVAL == "EINVAL"
EINTR == "EINTR"

-----------------------------------------------------------------------------
(* The run queue: RBTree<i64, Arc<SchedEntity>>, a sequence of entries     *)
(* [key, kind, id] in key order.  kind "pcb" is what CFSQueue::enqueue     *)
(* inserts (the PCB handle), kind "group" the scheduling entity of a task  *)
(* group, which has no PCB.                                                *)

PcbEntry(p, k) == [key |-> k, kind |-> "pcb", id |-> p]
GroupEntry(g, k) == [key |-> k, kind |-> "group", id |-> g]
NoSE == [key |-> 0, kind |-> "none", id |-> NoPcb]
\* SchedEntity.virtual_runtime of the scheduling entity of PCB p: SchedEntity::new
\* sets it to 0 and nothing writes it
se_virtual_runtime(p) == 0
\* the scheduling entity of PCB p (pcb.se()), kind "se"
SeEntry(p) == [key |-> se_virtual_runtime(p), kind |-> "se", id |-> p]

\* RBTree::insert: equal keys are kept, the new entry goes after them
insert(q, e) ==
    LET lo == SelectSeq(q, LAMBDA x : x.key <= e.key)
        hi == SelectSeq(q, LAMBDA x : x.key > e.key)
    IN  lo \o << e >> \o hi

\* number of entries of queue q that are PCB p
Count(q, p) == Cardinality({i \in 1..Len(q) : q[i].kind = "pcb" /\ q[i].id = p})
\* number of entries of all run queues that are PCB p
CountAll(qs, p) == Count(qs[0], p) + Count(qs[1], p)

\* a variant of enqueue that puts the PCB in front of the queue, whatever its key
enqueue_in_front(q, p, vr) == IF pid(p) = 0 THEN q ELSE << PcbEntry(p, vr) >> \o q

\* CFSQueue::enqueue: the idle PCB (pid 0) is not inserted
enqueue(q, p, vr) == IF pid(p) = 0 THEN q ELSE insert(q, PcbEntry(p, vr))

\* CFSQueue::enqueue_se: no test of the pid
enqueue_se(q, e) == insert(q, e)

\* CFSQueue::dequeue: the first entry, or the idle PCB of an empty queue
dequeue(q, c) ==
    IF Len(q) > 0 THEN [res |-> Head(q), q |-> Tail(q)]
    ELSE [res |-> PcbEntry(idle_pcb(c), 0), q |-> q]

\* CFSQueue::dequeue_se: the first entry; on an empty queue res is never assigned
dequeue_se(q) ==
    IF Len(q) > 0 THEN [res |-> Head(q), q |-> Tail(q)]
    ELSE [res |-> NoSE, q |-> q]

\* virtual runtime of an entry as min_vruntime reads it
entry_vruntime(e, vrt) == IF e.kind = "pcb" THEN vrt[e.id] ELSE 0

\* a variant of min_vruntime that reads the last entry of the queue
min_vruntime_last(q, vrt) == entry_vruntime(q[Len(q)], vrt)

\* CFSQueue::min_vruntime (the queue is not empty)
min_vruntime(q, vrt) == entry_vruntime(Head(q), vrt)

\* SchedEntity::pcb of an entry: a group entity has none
se_pcb(e) == IF e.kind = "pcb" THEN e.id ELSE NoPcb

-----------------------------------------------------------------------------
(* SchedulerCFS.  The operators take the run queues qs and the virtual     *)
(* runtimes vrt and give both back as [qs, vrt].                           *)

\* a variant of enqueue_reset_vruntime that resets the virtual runtime and
\* forgets the enqueue
enqueue_reset_vruntime_dropped(qs, vrt, p) ==
    LET q == qs[on_cpu(p)] IN
    [qs |-> qs,
     vrt |-> IF Len(q) > 0 THEN [vrt EXCEPT ![p] = min_vruntime(q, vrt)] ELSE vrt]

\* a variant of enqueue_reset_vruntime that never lowers a virtual runtime: the
\* PCB keeps its own when that is above the minimum of the queue
enqueue_reset_vruntime_keep_ahead(qs, vrt, p) ==
    LET c == on_cpu(p)
        m == IF Len(qs[c]) > 0 THEN min_vruntime(qs[c], vrt) ELSE vrt[p]
        vrt1 == [vrt EXCEPT ![p] = IF vrt[p] > m THEN vrt[p] ELSE m]
    IN  [qs |-> [qs EXCEPT ![c] = enqueue(qs[c], p, vrt1[p])], vrt |-> vrt1]

\* SchedulerCFS::enqueue_reset_vruntime
enqueue_reset_vruntime(qs, vrt, p) ==
    LET c == on_cpu(p)
        vrt1 == IF Len(qs[c]) > 0
                THEN [vrt EXCEPT ![p] = min_vruntime(qs[c], vrt)]
                ELSE vrt
    IN  [qs |-> [qs EXCEPT ![c] = enqueue(qs[c], p, vrt1[p])], vrt |-> vrt1]

\* Scheduler::enqueue_pcb of SchedulerCFS
enqueue_pcb(qs, vrt, p) ==
    [qs |-> [qs EXCEPT ![on_cpu(p)] = enqueue(qs[on_cpu(p)], p, vrt[p])], vrt |-> vrt]

\* sched::core::sched_enqueue(pcb, reset_time)
sched_enqueue(qs, vrt, p, reset_time) ==
    IF reset_time THEN enqueue_reset_vruntime(qs, vrt, p) ELSE enqueue_pcb(qs, vrt, p)

\* a variant of update_cpu_exec_proc_jiffies that leaves the jiffies as they are
update_cpu_exec_proc_jiffies_kept(jiffies, c) == jiffies

\* SchedulerCFS::update_cpu_exec_proc_jiffies
update_cpu_exec_proc_jiffies(jiffies, c) == [jiffies EXCEPT ![c] = TimeSlice]

\* a variant of the comparison that keeps the current process on a tie
sched_need_switch_strict(cur_state, cur_vr, proc_vr) ==
    (cur_state # Runnable) \/ (cur_vr > proc_vr)

\* the comparison of sched(): switch unless the current process is Runnable and
\* strictly ahead of the candidate
sched_need_switch(cur_state, cur_vr, proc_vr) ==
    (cur_state # Runnable) \/ (cur_vr >= proc_vr)

\* the loop of sched() between dequeue_se and the comparison: its condition pops
\* one more entry with dequeue(); cfs_queue is still None, so the body breaks at
\* once and the entry popped by the condition is dropped
sched_descent_loop(q, c) == dequeue(q, c).q

\* the record of the last call: the operation, the PCB it was about (for sched: the
\* candidate), its result, the state kind the call found (for sched: of the process
\* that was running) and a note: for sched how the virtual runtime of the running
\* process compared with the candidate's (or, on a fault, the kind of entity that
\* was popped), for wakeup which of its two reads of the state decided
Ret(op, p, res, was, note) ==
    [op |-> op, pcb |-> p, res |-> res, was |-> was, note |-> note]
NoRet == Ret("none", NoPcb, "-", "-", "-")

Cmp(a, b) == IF a < b THEN "lt" ELSE IF a = b THEN "eq" ELSE "gt"

\* Scheduler::sched of SchedulerCFS on CPU c, followed by the switch to the
\* process it returns.  Gives the new values of the variables it writes.
sched(c) ==
    LET cur == current[c]
        need1 == [need_sched EXCEPT ![cur] = FALSE]
        d1 == dequeue_se(cpu_queue[c])
        se == d1.res
        qs0 == [cpu_queue EXCEPT ![c] = sched_descent_loop(d1.q, c)]
        proc == se_pcb(se)
        was == state[cur][1]
    IN  IF proc = NoPcb
        THEN \* se is unassigned (empty queue) or a group entity: se.pcb() is no PCB
             [need |-> need1, qs |-> qs0, jiffies |-> cpu_exec_proc_jiffies,
              cur |-> cur, fault |-> TRUE,
              ret |-> Ret("sched", NoPcb, "fault", was, se.kind)]
        ELSE IF sched_need_switch(state[cur], virtual_runtime[cur], virtual_runtime[proc])
        THEN [need |-> need1,
              qs |-> IF state[cur] = Runnable
                     THEN sched_enqueue(qs0, virtual_runtime, cur, FALSE).qs
                     ELSE qs0,
              jiffies |-> IF cpu_exec_proc_jiffies[c] <= 0
                          THEN update_cpu_exec_proc_jiffies(cpu_exec_proc_jiffies, c)
                          ELSE cpu_exec_proc_jiffies,
              cur |-> proc, fault |-> FALSE,
              ret |-> Ret("sched", proc, "Some", was,
                          Cmp(virtual_runtime[cur], virtual_runtime[proc]))]
        ELSE [need |-> need1,
              qs |-> sched_enqueue(qs0, virtual_runtime, proc, FALSE).qs,
              jiffies |-> IF cpu_exec_proc_jiffies[c] <= 0
                          THEN update_cpu_exec_proc_jiffies(cpu_exec_proc_jiffies, c)
                          ELSE cpu_exec_proc_jiffies,
              cur |-> cur, fault |-> FALSE,
              ret |-> Ret("sched", proc, "None", was,
                          Cmp(virtual_runtime[cur], virtual_runtime[proc]))]

-----------------------------------------------------------------------------
(* State after construction: init (pid 1) runs on CPU 0, pid 2 waits in    *)
(* its run queue and pid 3 sleeps; CPU 1 runs its idle process and pid 4,   *)
(* whose CPU it is, sleeps.  Pids 3 and 4 are children of pid 2.            *)

\* the registry when the processes below have been created and added: every
\* process is registered under its pid
registry_after_boot ==
    [i \in Pids |-> IF i = 0 THEN NoPcb ELSE CHOOSE p \in Procs : pid(p) = i]

\* the strong references outside the registry: the kernel stack of every PCB
\* (do_create_pcb, line 476) and the child map of the parent of every process
\* whose pid is above 1 (line 481)
strong_refs_after_boot ==
    [p \in Pcbs |-> IF pid(p) > 1 THEN 2 ELSE 1]

\* the parent references when the processes have been created (lines 455-457
\* and 468): the PCB registered under the pid of the process that ran
\* do_create_pcb, which is the PCB whose child map received the new PCB (lines
\* 479-486); none for the idle processes and for init, whose creator has pid
\* 0, under which nothing is registered
parent_after_boot ==
    [p \in Pcbs |-> IF p = 3 THEN init_pcb
                    ELSE IF p \in {4, 5} THEN 3 ELSE NoPcb]

\* SwitchResult::new: no PCB recorded
NoSwitch == [prev_pcb |-> NoPcb, next_pcb |-> NoPcb]

\* the root task group
RootGroup == 0
\* no run queue: None in SchedEntity.cfs_rq or SchedEntity.my_q
NoQueue == << >>
\* the run queue of CPU c of the scheduler of task group g
QueueOf(g, c) == << g, c >>
\* the scheduling entity of PCB p, and that of task group g for CPU c
SeOfPcb(p) == << "pcb", p, NoCpu >>
SeOfGroup(g, c) == << "group", g, c >>
\* SchedEntity::new: no PCB, no run queue
NewSchedEntity == [pcb |-> NoPcb, cfs_rq |-> NoQueue, my_q |-> NoQueue]
\* a map extended or overwritten at key k
Put(f, k, v) == [x \in DOMAIN f \cup {k} |-> IF x = k THEN v ELSE f[x]]

\* the record of a PCB that do_create_pcb has made on CPU c
Handed(c, is_idle, i) == [cpu |-> c, is_idle |-> is_idle, pid |-> i]

\* the process manager is initialised, the idle processes and then the
\* processes of pid 1 to 4 have been created on CPU 0, and no context switch
\* is in progress: no arch_info lock is held and no CPU has a switch recorded
MgrAfterBoot ==
    /\ arch_info = [p \in Pcbs |-> FALSE]
    /\ SWITCH_RESULT = [c \in CPUs |-> NoSwitch]
    /\ INIT_FLAG = TRUE
    /\ INIT_DONE = TRUE
    /\ NEXT_PID = Cardinality(Procs) + 1
    /\ handed = [i \in 1..Cardinality(Pcbs) |->
                    IF i <= Cardinality(CPUs) THEN Handed(0, TRUE, 0)
                    ELSE Handed(0, FALSE, i - Cardinality(CPUs))]
    /\ sched_entity = [e \in { SeOfPcb(p) : p \in Pcbs } |-> NewSchedEntity]
    /\ tg_queue = [g \in {RootGroup} |-> [c \in CPUs |-> << >>]]
    /\ PROCESS_GROUP_MANAGER = << >>
    /\ parent_pcb = parent_after_boot

Init ==
    /\ state = [p \in Pcbs |-> IF p = 4 THEN Blocked(TRUE)
                             ELSE IF p = 5 THEN Blocked(FALSE) ELSE Runnable]
    /\ need_sched = [p \in Pcbs |-> FALSE]
    /\ virtual_runtime = [p \in Pcbs |-> 0]
    /\ sched_info_lock = [p \in Pcbs |-> NoCpu]
    /\ children = [p \in Pcbs |-> IF p = init_pcb THEN {3}
                                  ELSE IF p = 3 THEN {4, 5} ELSE {}]
    /\ called_exit = {}
    /\ cpu_queue = [c \in CPUs |-> IF c = 0 THEN << PcbEntry(3, 0) >> ELSE << >>]
    /\ cpu_exec_proc_jiffies = [c \in CPUs |-> 0]
    /\ current = [c \in CPUs |-> IF c = 0 THEN init_pcb ELSE idle_pcb(c)]
    /\ pc = [c \in CPUs |-> "run"]
    /\ arg = [c \in CPUs |-> NoPcb]
    /\ ncalls = 0
    /\ ret = NoRet
    /\ ALL_PROCESS = registry_after_boot
    /\ strong_refs = strong_refs_after_boot
    /\ MgrAfterBoot

-----------------------------------------------------------------------------
(* ProcessManager::wakeup(pcb) called on CPU c.                            *)

\* variants of the two reads: a first read that sends every PCB that has not
\* exited on to the wake, and a second read that wakes whatever it finds
wakeup_read_unlocked_not_exited(s) == ~ is_exited(s)
wakeup_read_locked_unchecked(s) == TRUE

\* the test of the first read of the state, before the write lock (line 169)
wakeup_read_unlocked(s) == is_blocked(s)

\* the test of the second read, under the write lock (line 172)
wakeup_read_locked(s) == is_blocked(s)

\* what wakeup returns for a PCB it does not wake (lines 179-187)
wakeup_result(s) == IF is_exited(s) THEN EINVAL ELSE Ok

\* the call and the first read of the state (lines 167-169, 184-188)
wakeup_call(c, p) ==
    /\ pc[c] = "run"
    /\ ncalls < MaxCalls
    /\ sched_info_lock[p] = NoCpu
    /\ IF wakeup_read_unlocked(state[p])
       THEN /\ pc' = [pc EXCEPT ![c] = "wakeup_lock"]
            /\ arg' = [arg EXCEPT ![c] = p]
            /\ ret' = ret
       ELSE /\ ret' = Ret("wakeup", p, wakeup_result(state[p]), state[p][1], "unlocked")
            /\ UNCHANGED << pc, arg >>
    /\ UNCHANGED << state, need_sched, virtual_runtime, sched_info_lock, children,
                    called_exit, cpu_queue, cpu_exec_proc_jiffies, current >>
    /\ ncalls' = ncalls + 1
    /\ UNCHANGED << regvars, mgrvars >>

\* pcb.sched_info_mut(): take the write lock (line 170)
wakeup_lock(c) ==
    /\ pc[c] = "wakeup_lock"
    /\ sched_info_lock[arg[c]] = NoCpu
    /\ sched_info_lock' = [sched_info_lock EXCEPT ![arg[c]] = c]
    /\ pc' = [pc EXCEPT ![c] = "wakeup_locked"]
    /\ UNCHANGED << state, need_sched, virtual_runtime, children, called_exit,
                    cpu_queue, cpu_exec_proc_jiffies, current, arg, ret >>
    /\ ncalls' = ncalls
    /\ UNCHANGED << regvars, mgrvars >>

\* a variant that still holds the write lock when it calls sched_enqueue
wakeup_writer_kept(c) == c

\* the holder of the write lock when sched_enqueue is called: drop(writer) at
\* line 175 has released it
wakeup_writer_at_enqueue(c) == NoCpu

\* the second read under the write lock (lines 171-183)
wakeup_locked(c) ==
    LET p == arg[c] IN
    /\ pc[c] = "wakeup_locked"
    /\ IF wakeup_read_locked(state[p])
       THEN /\ state' = [state EXCEPT ![p] = Runnable]
            /\ sched_info_lock' = [sched_info_lock EXCEPT ![p] = wakeup_writer_at_enqueue(c)]
            /\ pc' = [pc EXCEPT ![c] = "wakeup_enqueue"]
            /\ UNCHANGED << arg, ret >>
       ELSE /\ sched_info_lock' = [sched_info_lock EXCEPT ![p] = NoCpu]
            /\ pc' = [pc EXCEPT ![c] = "run"]
            /\ arg' = [arg EXCEPT ![c] = NoPcb]
            /\ ret' = Ret("wakeup", p, wakeup_result(state[p]), state[p][1], "locked")
            /\ state' = state
    /\ UNCHANGED << need_sched, virtual_runtime, children, called_exit, cpu_queue,
                    cpu_exec_proc_jiffies, current >>
    /\ ncalls' = ncalls
    /\ UNCHANGED << regvars, mgrvars >>

\* sched_enqueue(pcb.clone(), true) and return Ok(()) (lines 177-178); the enqueue
\* reads pcb.sched_info(), which waits for the write lock to be free
wakeup_enqueue(c) ==
    LET p == arg[c]
        r == sched_enqueue(cpu_queue, virtual_runtime, p, TRUE)
    IN
    /\ pc[c] = "wakeup_enqueue"
    /\ sched_info_lock[p] = NoCpu
    /\ cpu_queue' = r.qs
    /\ virtual_runtime' = r.vrt
    /\ pc' = [pc EXCEPT ![c] = "run"]
    /\ arg' = [arg EXCEPT ![c] = NoPcb]
    /\ ret' = Ret("wakeup", p, Ok, "Blocked", "locked")
    /\ UNCHANGED << state, need_sched, sched_info_lock, children, called_exit,
                    cpu_exec_proc_jiffies, current >>
    /\ ncalls' = ncalls
    /\ UNCHANGED << regvars, mgrvars >>

-----------------------------------------------------------------------------
(* ProcessManager::mark_sleep(interruptable) called on CPU c by whatever   *)
(* runs there: it acts on current_pcb().  The write lock is taken and      *)
(* released inside the call.                                               *)

\* a variant of the test below that lets only a Runnable caller go on
mark_sleep_allowed_runnable(s) == s = Runnable

\* the test of line 206 that lets mark_sleep go on
mark_sleep_allowed(s) == s # Exited(0)

mark_sleep(c, interruptable) ==
    LET p == current[c] IN
    /\ pc[c] = "run"
    /\ ncalls < MaxCalls
    /\ pid(p) # 0
    /\ sched_info_lock[p] = NoCpu
    /\ IF mark_sleep_allowed(state[p])
       THEN /\ state' = [state EXCEPT ![p] = Blocked(interruptable)]
            /\ need_sched' = [need_sched EXCEPT ![p] = TRUE]
            /\ ret' = Ret("mark_sleep", p, Ok, state[p][1], "-")
       ELSE /\ ret' = Ret("mark_sleep", p, EINTR, state[p][1], "-")
            /\ UNCHANGED << state, need_sched >>
    /\ UNCHANGED << virtual_runtime, sched_info_lock, children, called_exit, cpu_queue,
                    cpu_exec_proc_jiffies, current, pc, arg >>
    /\ ncalls' = ncalls + 1
    /\ UNCHANGED << regvars, mgrvars >>

-----------------------------------------------------------------------------
(* ProcessManager::exit(exit_code) called by the process running on CPU c. *)

\* a variant of adopt_childen that leaves the children in the map of p as well
adopt_childen_kept(ch, p) == [ch EXCEPT ![init_pcb] = ch[init_pcb] \cup ch[p]]

\* ProcessControlBlock::adopt_childen of PCB p: init takes every child of p
adopt_childen(ch, p) ==
    [ch EXCEPT ![init_pcb] = ch[init_pcb] \cup ch[p], ![p] = {}]

\* ProcessManager::exit_notify
exit_notify(ch, p) == IF pid(p) # 1 THEN adopt_childen(ch, p) ELSE ch

\* lines 237-245: the state is set, the wait queue (no PCB is ever put on it by
\* this code) is woken, the children are handed to init
exit(c, exit_code) ==
    LET p == current[c] IN
    /\ pc[c] = "run"
    /\ ncalls < MaxCalls
    /\ pid(p) # 0
    /\ p \notin called_exit
    /\ sched_info_lock[p] = NoCpu
    /\ state' = [state EXCEPT ![p] = Exited(exit_code)]
    /\ children' = exit_notify(children, p)
    /\ called_exit' = called_exit \cup {p}
    /\ pc' = [pc EXCEPT ![c] = "exit_sched"]
    /\ ret' = Ret("exit", p, "-", state[p][1], "-")
    /\ UNCHANGED << need_sched, virtual_runtime, sched_info_lock, cpu_queue,
                    cpu_exec_proc_jiffies, current, arg >>
    /\ ncalls' = ncalls + 1
    /\ UNCHANGED << regvars, mgrvars >>

\* line 246: sched(); when it switches, the CPU runs the chosen process, and
\* otherwise control stays in the loop of line 247
exit_sched(c) ==
    LET r == sched(c) IN
    /\ pc[c] = "exit_sched"
    /\ sched_info_lock[current[c]] = NoCpu
    /\ need_sched' = r.need
    /\ cpu_queue' = r.qs
    /\ cpu_exec_proc_jiffies' = r.jiffies
    /\ current' = [current EXCEPT ![c] = r.cur]
    /\ ret' = r.ret
    /\ pc' = [pc EXCEPT ![c] = IF r.fault THEN "panic" ELSE "run"]
    /\ UNCHANGED << state, virtual_runtime, sched_info_lock, children, called_exit, arg >>
    /\ ncalls' = ncalls
    /\ UNCHANGED << regvars, mgrvars >>

-----------------------------------------------------------------------------
(* The scheduler's entry points on CPU c.                                  *)

\* sched() called with interrupts disabled
do_sched(c) ==
    LET r == sched(c) IN
    /\ pc[c] = "run"
    /\ ncalls < MaxCalls
    /\ sched_info_lock[current[c]] = NoCpu
    /\ need_sched' = r.need
    /\ cpu_queue' = r.qs
    /\ cpu_exec_proc_jiffies' = r.jiffies
    /\ current' = [current EXCEPT ![c] = r.cur]
    /\ ret' = r.ret
    /\ pc' = [pc EXCEPT ![c] = IF r.fault THEN "panic" ELSE "run"]
    /\ UNCHANGED << state, virtual_runtime, sched_info_lock, children, called_exit, arg >>
    /\ ncalls' = ncalls + 1
    /\ UNCHANGED << regvars, mgrvars >>

\* a variant of the test below that finds every slice exhausted
timer_slice_exhausted_always(j) == TRUE

\* the test of timer_update_jiffies on the remaining jiffies (line 177)
timer_slice_exhausted(j) == j <= 0

\* SchedulerCFS::timer_update_jiffies on the timer interrupt of CPU c
timer_update_jiffies(c) ==
    LET p == current[c]
        j == cpu_exec_proc_jiffies[c] - 1
    IN
    /\ pc[c] = "run"
    /\ ncalls < MaxCalls
    /\ cpu_exec_proc_jiffies' = [cpu_exec_proc_jiffies EXCEPT ![c] = j]
    /\ need_sched' = IF timer_slice_exhausted(j)
                     THEN [need_sched EXCEPT ![p] = TRUE] ELSE need_sched
    /\ virtual_runtime' = [virtual_runtime EXCEPT ![p] = virtual_runtime[p] + 1]
    /\ ret' = Ret("timer", NoPcb, "-", "-", "-")
    /\ UNCHANGED << state, sched_info_lock, children, called_exit, cpu_queue,
                    current, pc, arg >>
    /\ ncalls' = ncalls + 1
    /\ UNCHANGED << regvars, mgrvars >>

\* SchedulerCFS::enqueue_group_se(tg_se, cpu) on the global scheduler: the
\* scheduling entity of group g (virtual runtime 0) goes into the queue of cpu
enqueue_group_se(g, cpu) ==
    /\ ncalls < MaxCalls
    /\ \A i \in 1..Len(cpu_queue[cpu]) : cpu_queue[cpu][i].kind # "group"
    /\ cpu_queue' = [cpu_queue EXCEPT ![cpu] = enqueue_se(cpu_queue[cpu], GroupEntry(g, 0))]
    /\ ret' = Ret("enqueue_group_se", NoPcb, "-", "-", "-")
    /\ UNCHANGED << state, need_sched, virtual_runtime, sched_info_lock, children,
                    called_exit, cpu_exec_proc_jiffies, current, pc, arg >>
    /\ ncalls' = ncalls + 1
    /\ UNCHANGED << regvars, mgrvars >>

-----------------------------------------------------------------------------
Next ==
    \/ \E c \in CPUs, p \in Procs : wakeup_call(c, p)
    \/ \E c \in CPUs : wakeup_lock(c)
    \/ \E c \in CPUs : wakeup_locked(c)
    \/ \E c \in CPUs : wakeup_enqueue(c)
    \/ \E c \in CPUs, b \in BOOLEAN : mark_sleep(c, b)
    \/ \E c \in CPUs, x \in ExitCodes : exit(c, x)
    \/ \E c \in CPUs : exit_sched(c)
    \/ \E c \in CPUs : do_sched(c)
    \/ \E c \in CPUs : timer_update_jiffies(c)
    \/ \E g \in Groups, c \in CPUs : enqueue_group_se(g, c)

Spec == Init /\ [][Next]_vars

TypeOK ==
    /\ state \in [Pcbs -> ProcessState]
    /\ need_sched \in [Pcbs -> BOOLEAN]
    /\ \A p \in Pcbs : virtual_runtime[p] \in 0..MaxCalls
    /\ sched_info_lock \in [Pcbs -> CPUs \cup {NoCpu}]
    /\ current \in [CPUs -> Pcbs]
    /\ \A c \in CPUs : cpu_exec_proc_jiffies[c] \in (0 - MaxCalls)..TimeSlice

-----------------------------------------------------------------------------
(* Properties of the process states.                                       *)

\* a step of sched() on CPU c, from either of its callers
SchedStep(c) == do_sched(c) \/ exit_sched(c)

\* the entities of a run queue, without their keys
Entities(q) == { << q[i].kind, q[i].id >> : i \in 1..Len(q) }

IsError(res) == res \in {EINVAL, EINTR}

\* C1: Exited is absorbing: no step of wakeup, mark_sleep, sched, the timer
\* update or exit takes a PCB that is in an Exited state to a state that is
\* not Exited.
C1_ExitedAbsorbing ==
    [][\A p \in Pcbs : is_exited(state[p]) => is_exited(state'[p])]_vars

\* C2: a wakeup of a PCB that is Exited, and a mark_sleep by a process that is
\* Exited, return an error and change neither any state, nor any
\* needs-reschedule flag, nor any run queue.
C2_ExitedCallsFail ==
    [][\A c \in CPUs :
          /\ \A p \in Procs :
                (is_exited(state[p]) /\ wakeup_call(c, p))
                    => /\ ret'.op = "wakeup" /\ IsError(ret'.res)
                       /\ pc'[c] = "run"
                       /\ UNCHANGED << state, need_sched, cpu_queue >>
          /\ \A b \in BOOLEAN :
                (is_exited(state[current[c]]) /\ mark_sleep(c, b))
                    => /\ ret'.op = "mark_sleep" /\ IsError(ret'.res)
                       /\ UNCHANGED << state, need_sched, cpu_queue >>]_vars

\* C5: wakeup of a PCB whose state is Runnable, whether wakeup finds that at its
\* first read or at its read under the write lock, returns success and leaves
\* every state, every run queue and every virtual runtime as they were.
C5_WakeupRunnableNoop ==
    [][\A c \in CPUs :
          /\ \A p \in Procs :
                (state[p] = Runnable /\ wakeup_call(c, p))
                    => /\ ret' = Ret("wakeup", p, Ok, "Runnable", "unlocked")
                       /\ pc'[c] = "run"
                       /\ UNCHANGED << state, cpu_queue, virtual_runtime >>
          /\ (pc[c] = "wakeup_locked" /\ state[arg[c]] = Runnable /\ wakeup_locked(c))
                    => /\ ret' = Ret("wakeup", arg[c], Ok, "Runnable", "locked")
                       /\ pc'[c] = "run"
                       /\ UNCHANGED << state, cpu_queue, virtual_runtime >>]_vars

\* a wakeup of a Runnable PCB has returned success
C5_Witness ==
    /\ ret.op = "wakeup" /\ ret.was = "Runnable" /\ ret.res = Ok
    /\ ret.pcb \in Procs /\ state[ret.pcb] = Runnable

\* C6: wakeup of a PCB whose state is Blocked sets the state to Runnable and
\* has released the write lock of the scheduling information when the enqueue
\* starts; the enqueue puts exactly one entry for the PCB into the run queue
\* of the PCB's CPU, changes no other run queue, and wakeup returns success.
C6_WakeupBlocked ==
    [][\A c \in CPUs :
          /\ (pc[c] = "wakeup_locked" /\ is_blocked(state[arg[c]]) /\ wakeup_locked(c))
                => /\ state'[arg[c]] = Runnable
                   /\ pc'[c] = "wakeup_enqueue"
                   /\ sched_info_lock'[arg[c]] = NoCpu
                   /\ cpu_queue' = cpu_queue
          /\ wakeup_enqueue(c)
                => LET p == arg[c]
                       q == on_cpu(p)
                   IN  /\ sched_info_lock[p] # c
                       /\ Count(cpu_queue'[q], p) = Count(cpu_queue[q], p) + 1
                       /\ Len(cpu_queue'[q]) = Len(cpu_queue[q]) + 1
                       /\ \A d \in CPUs \ {q} : cpu_queue'[d] = cpu_queue[d]
                       /\ ret' = Ret("wakeup", p, Ok, "Blocked", "locked")
                       /\ state' = state]_vars

\* a wakeup that found its PCB Blocked has returned, and the PCB is Runnable and
\* in the run queue of its CPU
C6_Witness ==
    /\ ret.op = "wakeup" /\ ret.was = "Blocked" /\ ret.res = Ok
    /\ ret.pcb \in Procs /\ state[ret.pcb] = Runnable
    /\ Count(cpu_queue[on_cpu(ret.pcb)], ret.pcb) >= 1
    /\ sched_info_lock[ret.pcb] = NoCpu

-----------------------------------------------------------------------------
(* Properties of sched().                                                  *)

\* the process of the entity at the head of the run queue of CPU c, NoPcb when
\* the queue is empty or its head is a group entity
Candidate(c) == se_pcb(dequeue_se(cpu_queue[c]).res)

\* C7 as stated: with a Runnable current process and a process at the head of
\* the run queue, sched() reports a switch exactly when the candidate's virtual
\* runtime is strictly less than the current process's; on a tie it reports no
\* switch and the current process keeps the CPU.
C7_TieKeepsCurrent ==
    [][\A c \in CPUs :
          (SchedStep(c) /\ Candidate(c) # NoPcb /\ state[current[c]] = Runnable)
              => IF virtual_runtime[current[c]] > virtual_runtime[Candidate(c)]
                 THEN ret'.res = "Some"
                 ELSE ret'.res = "None" /\ current'[c] = current[c]]_vars

\* C7 amended: with a Runnable current process and a process at the head of the
\* run queue, sched() reports a switch to the candidate when the current
\* process's virtual runtime is greater than or equal to the candidate's, and
\* reports no switch, the current process keeping the CPU, only when the
\* current process's virtual runtime is strictly less than the candidate's.
C7_TieSwitches ==
    [][\A c \in CPUs :
          (SchedStep(c) /\ Candidate(c) # NoPcb /\ state[current[c]] = Runnable)
              => IF virtual_runtime[current[c]] >= virtual_runtime[Candidate(c)]
                 THEN /\ ret'.res = "Some" /\ ret'.pcb = Candidate(c)
                      /\ current'[c] = Candidate(c)
                 ELSE /\ ret'.res = "None"
                      /\ current'[c] = current[c]]_vars

\* sched() has switched away from a Runnable process whose virtual runtime
\* equalled the candidate's
C7_Witness ==
    /\ ret.op = "sched" /\ ret.res = "Some"
    /\ ret.was = "Runnable" /\ ret.note = "eq"
    /\ \E c \in CPUs : current[c] = ret.pcb

\* C8: a process (not the idle process) that is Runnable when sched() switches
\* away from it is in the run queue of its CPU afterwards; sched() called with
\* a current process that is Blocked or Exited always reports a switch and
\* adds no entry for that process to any run queue.
C8_OutgoingRequeuedIffRunnable ==
    [][\A c \in CPUs :
          SchedStep(c) =>
              LET cur == current[c] IN
              /\ (state[cur] = Runnable /\ pid(cur) # 0 /\ ret'.res = "Some")
                     => Count(cpu_queue'[on_cpu(cur)], cur) >= 1
              /\ (state[cur] # Runnable)
                     => /\ ret'.res = "Some"
                        /\ CountAll(cpu_queue', cur) <= CountAll(cpu_queue, cur)]_vars

\* C9: when sched() reports no switch, the entities in the run queue of its CPU
\* are the same after the call as before it, and no other run queue changes.
C9_NoSwitchKeepsQueue ==
    [][\A c \in CPUs :
          (SchedStep(c) /\ ret'.res = "None")
              => /\ Entities(cpu_queue'[c]) = Entities(cpu_queue[c])
                 /\ \A d \in CPUs \ {c} : cpu_queue'[d] = cpu_queue[d]]_vars

\* C10: sched() on a run queue whose head is a group entity does not take the
\* group entity for a process: the call completes and its candidate is a
\* process.
C10_CandidateIsProcess ==
    [][\A c \in CPUs :
          (SchedStep(c) /\ cpu_queue[c] # << >> /\ Head(cpu_queue[c]).kind = "group")
              => /\ ret'.res \in {"Some", "None"}
                 /\ ret'.pcb \in Pcbs
                 /\ pc'[c] = "run"]_vars

-----------------------------------------------------------------------------
(* Wakeup races.  The two specifications below start from the states in    *)
(* which init (pid 1) runs on CPU 0, pid 2 is either in the run queue of   *)
(* CPU 0 or asleep, pids 3 and 4 are asleep, and the virtual runtimes are  *)
(* any the timer can have produced; they run only the calls of the race.   *)

\* the sleeping process that the two CPUs wake: pid 3
sleeper == init_pcb + 2

InitRace ==
    \E v \in [Procs -> 0..1], s3 \in {Runnable, Blocked(FALSE)} :
        /\ state = [p \in Pcbs |-> IF p = 3 THEN s3
                                 ELSE IF p = sleeper THEN Blocked(TRUE)
                                 ELSE IF p = 5 THEN Blocked(FALSE) ELSE Runnable]
        /\ need_sched = [p \in Pcbs |-> FALSE]
        /\ virtual_runtime = [p \in Pcbs |-> IF p \in Procs THEN v[p] ELSE 0]
        /\ sched_info_lock = [p \in Pcbs |-> NoCpu]
        /\ children = [p \in Pcbs |-> IF p = init_pcb THEN {3}
                                      ELSE IF p = 3 THEN {4, 5} ELSE {}]
        /\ called_exit = {}
        /\ cpu_queue = [c \in CPUs |-> IF c = 0 /\ s3 = Runnable
                                       THEN << PcbEntry(3, v[3]) >> ELSE << >>]
        /\ cpu_exec_proc_jiffies = [c \in CPUs |-> 0]
        /\ current = [c \in CPUs |-> IF c = 0 THEN init_pcb ELSE idle_pcb(c)]
        /\ pc = [c \in CPUs |-> "run"]
        /\ arg = [c \in CPUs |-> NoPcb]
        /\ ncalls = 0
        /\ ret = NoRet
        /\ ALL_PROCESS = registry_after_boot
        /\ strong_refs = strong_refs_after_boot
        /\ MgrAfterBoot

\* both CPUs call wakeup on the sleeper, at any times
NextWakeupRace ==
    \/ \E c \in CPUs : wakeup_call(c, sleeper)
    \/ \E c \in CPUs : wakeup_lock(c)
    \/ \E c \in CPUs : wakeup_locked(c)
    \/ \E c \in CPUs : wakeup_enqueue(c)

SpecWakeupRace == InitRace /\ [][NextWakeupRace]_vars

\* C3: when the two CPUs call wakeup on the same Blocked(true) process, every
\* call returns success, the process is never in the run queues more than
\* once, and when the calls have returned the process is Runnable and in the
\* run queue of its CPU exactly once.
C3_ConcurrentWakeup ==
    /\ CountAll(cpu_queue, sleeper) <= 1
    /\ (ret.op = "wakeup") => (ret.pcb = sleeper /\ ret.res = Ok)
    /\ (ncalls >= 1 /\ \A c \in CPUs : pc[c] = "run")
           => /\ state[sleeper] = Runnable
              /\ Count(cpu_queue[on_cpu(sleeper)], sleeper) = 1
              /\ CountAll(cpu_queue, sleeper) = 1

\* both CPUs read Blocked, one of them woke the process and the other, finding
\* it Runnable under the write lock, returned success without an enqueue
C3_Witness ==
    /\ ret = Ret("wakeup", sleeper, Ok, "Runnable", "locked")
    /\ ncalls = 2
    /\ \A c \in CPUs : pc[c] = "run"
    /\ state[sleeper] = Runnable
    /\ CountAll(cpu_queue, sleeper) = 1

\* the process running on CPU 0 calls mark_sleep once
SleepCalled == IF need_sched[init_pcb] THEN 1 ELSE 0

\* the process on CPU 0 calls mark_sleep once and CPU 1 calls wakeup on that
\* process once, at any times
NextSleepWakeup ==
    \/ \E b \in BOOLEAN : SleepCalled = 0 /\ mark_sleep(0, b)
    \/ ncalls = SleepCalled /\ wakeup_call(1, init_pcb)
    \/ wakeup_lock(1)
    \/ wakeup_locked(1)
    \/ wakeup_enqueue(1)

SpecSleepWakeup == InitRace /\ [][NextSleepWakeup]_vars

\* C4: one mark_sleep by a process and one wakeup of it from the other CPU end
\* as one of the two orders of the calls: either the wakeup found the process
\* Runnable, enqueued nothing, and the process ends Blocked and in no run
\* queue, or the wakeup found it Blocked and the process ends Runnable and in
\* the run queues exactly once; the wakeup returns success either way.
C4_NoLostWakeup ==
    /\ (ret.op = "wakeup") => (ret.res = Ok)
    /\ (ret.op = "wakeup" /\ ret.was = "Blocked")
           => /\ state[init_pcb] = Runnable
              /\ CountAll(cpu_queue, init_pcb) = 1
    /\ (ret.op = "wakeup" /\ ret.was = "Runnable")
           => /\ state[init_pcb] = Runnable
              /\ CountAll(cpu_queue, init_pcb) = 0
    /\ (SleepCalled = 1 /\ ncalls = 2 /\ pc[1] = "run")
           => \/ /\ ret.op = "mark_sleep"
                 /\ is_blocked(state[init_pcb])
                 /\ CountAll(cpu_queue, init_pcb) = 0
              \/ /\ ret.op = "wakeup" /\ ret.was = "Blocked"
                 /\ state[init_pcb] = Runnable
                 /\ CountAll(cpu_queue, init_pcb) = 1

\* the process went to sleep and the wakeup that followed found it Blocked
C4_Witness ==
    /\ SleepCalled = 1 /\ ncalls = 2 /\ pc[1] = "run"
    /\ ret = Ret("wakeup", init_pcb, Ok, "Blocked", "locked")
    /\ state[init_pcb] = Runnable
    /\ Count(cpu_queue[on_cpu(init_pcb)], init_pcb) = 1

-----------------------------------------------------------------------------
(* The run-queue operations called directly on empty queues: any PCB that  *)
(* no run queue holds is handed to enqueue_pcb, enqueue_reset_vruntime and *)
(* enqueue_se, and the queues are emptied with dequeue and dequeue_se.     *)

\* no run queue holds PCB p or its scheduling entity
NotQueued(p) ==
    \A c \in CPUs : \A i \in 1..Len(cpu_queue[c]) :
        ~ (cpu_queue[c][i].kind \in {"pcb", "se"} /\ cpu_queue[c][i].id = p)

\* the run queues are empty and the virtual runtimes are any the timer can
\* have produced
InitQueue ==
    \E v \in [Procs -> 0..1] :
        /\ state = [p \in Pcbs |-> Runnable]
        /\ need_sched = [p \in Pcbs |-> FALSE]
        /\ virtual_runtime = [p \in Pcbs |-> IF p \in Procs THEN v[p] ELSE 0]
        /\ sched_info_lock = [p \in Pcbs |-> NoCpu]
        /\ children = [p \in Pcbs |-> IF p = init_pcb THEN {3}
                                      ELSE IF p = 3 THEN {4, 5} ELSE {}]
        /\ called_exit = {}
        /\ cpu_queue = [c \in CPUs |-> << >>]
        /\ cpu_exec_proc_jiffies = [c \in CPUs |-> 0]
        /\ current = [c \in CPUs |-> IF c = 0 THEN init_pcb ELSE idle_pcb(c)]
        /\ pc = [c \in CPUs |-> "run"]
        /\ arg = [c \in CPUs |-> NoPcb]
        /\ ncalls = 0
        /\ ret = NoRet
        /\ ALL_PROCESS = registry_after_boot
        /\ strong_refs = strong_refs_after_boot
        /\ MgrAfterBoot

\* Scheduler::enqueue_pcb(pcb)
q_enqueue_pcb(p) ==
    LET r == enqueue_pcb(cpu_queue, virtual_runtime, p) IN
    /\ ncalls < MaxCalls
    /\ NotQueued(p)
    /\ cpu_queue' = r.qs
    /\ ret' = Ret("enqueue_pcb", p, "-", on_cpu(p), virtual_runtime[p])
    /\ ncalls' = ncalls + 1
    /\ UNCHANGED << state, need_sched, virtual_runtime, sched_info_lock, children,
                    called_exit, cpu_exec_proc_jiffies, current, pc, arg >>
    /\ UNCHANGED << regvars, mgrvars >>

\* SchedulerCFS::enqueue_reset_vruntime(pcb)
q_enqueue_reset_vruntime(p) ==
    LET r == enqueue_reset_vruntime(cpu_queue, virtual_runtime, p) IN
    /\ ncalls < MaxCalls
    /\ NotQueued(p)
    /\ cpu_queue' = r.qs
    /\ virtual_runtime' = r.vrt
    /\ ret' = Ret("enqueue_reset_vruntime", p, "-", on_cpu(p), r.vrt[p])
    /\ ncalls' = ncalls + 1
    /\ UNCHANGED << state, need_sched, sched_info_lock, children,
                    called_exit, cpu_exec_proc_jiffies, current, pc, arg >>
    /\ UNCHANGED << regvars, mgrvars >>

\* SchedulerCFS::enqueue_se(pcb): the scheduling entity of the PCB goes into
\* the queue of the PCB's CPU
q_enqueue_se(p) ==
    LET c == on_cpu(p) IN
    /\ ncalls < MaxCalls
    /\ NotQueued(p)
    /\ cpu_queue' = [cpu_queue EXCEPT ![c] = enqueue_se(cpu_queue[c], SeEntry(p))]
    /\ ret' = Ret("enqueue_se", p, "-", c, se_virtual_runtime(p))
    /\ ncalls' = ncalls + 1
    /\ UNCHANGED << state, need_sched, virtual_runtime, sched_info_lock, children,
                    called_exit, cpu_exec_proc_jiffies, current, pc, arg >>
    /\ UNCHANGED << regvars, mgrvars >>

\* CFSQueue::dequeue on the queue of CPU c; the record of the call holds the
\* entity returned, its kind, the CPU and the key it was queued under
q_dequeue(c) ==
    LET d == dequeue(cpu_queue[c], c) IN
    /\ ncalls < MaxCalls
    /\ cpu_queue' = [cpu_queue EXCEPT ![c] = d.q]
    /\ ret' = Ret("dequeue", d.res.id, d.res.kind, c, d.res.key)
    /\ ncalls' = ncalls + 1
    /\ UNCHANGED << state, need_sched, virtual_runtime, sched_info_lock, children,
                    called_exit, cpu_exec_proc_jiffies, current, pc, arg >>
    /\ UNCHANGED << regvars, mgrvars >>

\* CFSQueue::dequeue_se on the queue of CPU c
q_dequeue_se(c) ==
    LET d == dequeue_se(cpu_queue[c]) IN
    /\ ncalls < MaxCalls
    /\ cpu_queue' = [cpu_queue EXCEPT ![c] = d.q]
    /\ ret' = Ret("dequeue_se", d.res.id, d.res.kind, c, d.res.key)
    /\ ncalls' = ncalls + 1
    /\ UNCHANGED << state, need_sched, virtual_runtime, sched_info_lock, children,
                    called_exit, cpu_exec_proc_jiffies, current, pc, arg >>
    /\ UNCHANGED << regvars, mgrvars >>

\* the PCBs whose scheduling entity is handed to enqueue_se: an idle PCB, init
\* and a process of the other CPU
SePcbs == {idle_pcb(0), init_pcb, 5}

NextQueue ==
    \/ \E p \in Pcbs : q_enqueue_pcb(p)
    \/ \E p \in Procs : q_enqueue_reset_vruntime(p)
    \/ \E p \in SePcbs : q_enqueue_se(p)
    \/ \E g \in Groups, c \in CPUs : enqueue_group_se(g, c)
    \/ \E c \in CPUs : q_dequeue(c)
    \/ \E c \in CPUs : q_dequeue_se(c)

SpecQueue == InitQueue /\ [][NextQueue]_vars

\* number of entries of queue q that are entry e
CountEntry(q, e) == Cardinality({i \in 1..Len(q) : q[i] = e})

\* the least key of a queue that is not empty
MinKey(q) ==
    CHOOSE k \in {q[i].key : i \in 1..Len(q)} : \A i \in 1..Len(q) : k <= q[i].key

DequeueStep(c) == q_dequeue(c) \/ q_dequeue_se(c)

\* C11: a process handed to enqueue_pcb is in the run queue of its CPU once,
\* keyed by its virtual runtime; a dequeue on a queue that is not empty
\* removes exactly one entry and returns it, no entry of the queue has a
\* smaller key than the one returned, and successive dequeues with no enqueue
\* in between return keys in non-decreasing order.
C11_DequeueOrder ==
    [][/\ \A p \in Procs :
            q_enqueue_pcb(p)
                => LET c == on_cpu(p) IN
                   /\ CountEntry(cpu_queue'[c], PcbEntry(p, virtual_runtime[p])) = 1
                   /\ Len(cpu_queue'[c]) = Len(cpu_queue[c]) + 1
       /\ \A c \in CPUs :
            (DequeueStep(c) /\ cpu_queue[c] # << >>)
                => LET q == cpu_queue[c]
                       e == [key |-> ret'.note, kind |-> ret'.res, id |-> ret'.pcb]
                   IN  /\ CountEntry(q, e) >= 1
                       /\ \A i \in 1..Len(q) : e.key <= q[i].key
                       /\ Len(cpu_queue'[c]) = Len(q) - 1
                       /\ \A i \in 1..Len(q) :
                            CountEntry(cpu_queue'[c], q[i])
                                = CountEntry(q, q[i]) - (IF q[i] = e THEN 1 ELSE 0)
                       /\ (ret.op \in {"dequeue", "dequeue_se"} /\ ret.was = c)
                              => ret.note <= ret'.note]_vars

\* a dequeue has returned an entity that was queued under the key 1 and has
\* left the queue of CPU 0 empty
C11_Witness ==
    /\ ret.op \in {"dequeue", "dequeue_se"} /\ ret.was = 0
    /\ ret.res \in {"pcb", "se", "group"} /\ ret.note = 1
    /\ cpu_queue[0] = << >>
    /\ ncalls >= 4

\* C12: the selection of sched() on a CPU whose run queue is empty yields the
\* idle PCB of that CPU: the call completes and its candidate is the idle PCB.
C12_EmptySelectsIdle ==
    [][\A c \in CPUs :
          (SchedStep(c) /\ cpu_queue[c] = << >>)
              => /\ ret'.res \in {"Some", "None"}
                 /\ ret'.pcb = idle_pcb(c)
                 /\ pc'[c] = "run"]_vars

\* C13: no run queue holds an idle PCB (pid 0) or the scheduling entity of one.
C13_IdleNeverQueued ==
    \A c \in CPUs : \A i \in 1..Len(cpu_queue[c]) :
        ~ (cpu_queue[c][i].kind \in {"pcb", "se"} /\ pid(cpu_queue[c][i].id) = 0)

\* C14: enqueue_reset_vruntime of a process sets its virtual runtime to the
\* least key of the run queue of its CPU when that queue is not empty and
\* leaves it as it is when the queue is empty; afterwards the process is in
\* that queue once, keyed by that value, and no other virtual runtime and no
\* other queue has changed.
C14_ResetVruntime ==
    [][\A p \in Procs :
          q_enqueue_reset_vruntime(p)
              => LET c == on_cpu(p)
                     q == cpu_queue[c]
                     m == IF q # << >> THEN MinKey(q) ELSE virtual_runtime[p]
                 IN  /\ virtual_runtime'[p] = m
                     /\ CountEntry(cpu_queue'[c], PcbEntry(p, m)) = 1
                     /\ Len(cpu_queue'[c]) = Len(q) + 1
                     /\ \A x \in Pcbs \ {p} : virtual_runtime'[x] = virtual_runtime[x]
                     /\ \A d \in CPUs \ {c} : cpu_queue'[d] = cpu_queue[d]]_vars

\* a process has been put by enqueue_reset_vruntime into a queue that held an
\* entry, with the virtual runtime 1 of that entry
C14_Witness ==
    /\ ret.op = "enqueue_reset_vruntime" /\ ret.pcb \in Procs /\ ret.note = 1
    /\ virtual_runtime[ret.pcb] = 1
    /\ Len(cpu_queue[ret.was]) >= 2
    /\ Head(cpu_queue[ret.was]).key = 1
    /\ CountEntry(cpu_queue[ret.was], PcbEntry(ret.pcb, 1)) = 1

-----------------------------------------------------------------------------
(* Properties of the timer tick and of exit.                               *)

\* C15: a call of timer_update_jiffies on a CPU takes one from the remaining
\* jiffies of that CPU, raises the needs-reschedule flag of the current
\* process exactly when the remaining jiffies are then <= 0, adds one to the
\* virtual runtime of the current process in both cases, and changes no other
\* flag, virtual runtime or jiffies, no current process, state or run queue.
C15_TimerTick ==
    [][\A c \in CPUs :
          timer_update_jiffies(c)
              => LET p == current[c] IN
                 /\ cpu_exec_proc_jiffies'[c] = cpu_exec_proc_jiffies[c] - 1
                 /\ need_sched'[p] = (need_sched[p] \/ cpu_exec_proc_jiffies'[c] <= 0)
                 /\ virtual_runtime'[p] = virtual_runtime[p] + 1
                 /\ \A d \in CPUs \ {c} :
                        cpu_exec_proc_jiffies'[d] = cpu_exec_proc_jiffies[d]
                 /\ \A x \in Pcbs \ {p} :
                        /\ need_sched'[x] = need_sched[x]
                        /\ virtual_runtime'[x] = virtual_runtime[x]
                 /\ UNCHANGED << current, cpu_queue, state, pc >>]_vars

\* after timer ticks on both CPUs: on CPU 0 the slice is not exhausted and the
\* flag of the current process is down, on CPU 1 the slice is exhausted and
\* the flag is up; both current processes have accrued virtual runtime
C15_Witness ==
    /\ ret.op = "timer"
    /\ cpu_exec_proc_jiffies[0] = TimeSlice - 1
    /\ ~ need_sched[current[0]] /\ virtual_runtime[current[0]] >= 1
    /\ cpu_exec_proc_jiffies[1] < 0
    /\ need_sched[current[1]] /\ virtual_runtime[current[1]] >= 1

\* C16: when a process other than init exits, init's child map becomes the
\* union of its own children and those of the exiting process, the child map
\* of the exiting process becomes empty and no other child map changes; when
\* init exits no child map changes; a PCB is in at most one child map.
C16_ExitAdoption ==
    [][\A c \in CPUs, x \in ExitCodes :
          exit(c, x)
              => LET p == current[c] IN
                 /\ IF p # init_pcb
                    THEN /\ children'[init_pcb] = children[init_pcb] \cup children[p]
                         /\ children'[p] = {}
                         /\ \A q \in Pcbs \ {p, init_pcb} : children'[q] = children[q]
                    ELSE children' = children
                 /\ \A ch \in Pcbs :
                        Cardinality({q \in Pcbs : ch \in children'[q]}) <= 1]_vars

\* pid 2 has set its state in exit: its two children are with init, next to
\* the child init had, and its own child map is empty
C16_Witness ==
    /\ ret.op = "exit" /\ ret.pcb = 3
    /\ is_exited(state[3])
    /\ children[3] = {}
    /\ children[init_pcb] = {3, 4, 5}

\* C17: exit(code) sets the state of the caller to Exited(code) and does not
\* return to the caller; a PCB whose state is Exited is in no run queue, and
\* sched() never reports a switch to a PCB whose state is Exited.
C17_ExitTerminal ==
    [][/\ \A c \in CPUs, x \in ExitCodes :
            exit(c, x) => (state'[current[c]] = Exited(x) /\ pc'[c] # "run")
       /\ \A p \in Pcbs :
            is_exited(state'[p]) => CountAll(cpu_queue', p) = 0
       /\ \A c \in CPUs :
            (SchedStep(c) /\ ret'.res = "Some") => ~ is_exited(state[ret'.pcb])]_vars

-----------------------------------------------------------------------------
(* The registry of all processes: ProcessManager::find, add_pcb, release   *)
(* and the strong references to the PCBs.  strong_refs[o] counts the strong *)
(* references to PCB o that the registry does not hold, whoever holds them  *)
(* (a kernel stack, a child map, a caller's handle).                        *)

\* the most strong references outside the registry that one PCB gets
MaxRefs == 2

\* the variables the registry operations leave alone
procvars == << state, need_sched, virtual_runtime, sched_info_lock, children,
               called_exit, cpu_queue, cpu_exec_proc_jiffies, current, arg, mgrvars >>

\* ProcessManager::find on registry reg: the entry under pid i, NoPcb if none
find(reg, i) == reg[i]

\* Arc::strong_count of PCB o: the references outside the registry and the
\* registry's own, if o is registered
strong_count(reg, refs, o) ==
    refs[o] + (IF find(reg, pid(o)) = o THEN 1 ELSE 0)

\* a variant of the test of release that lets any count through
release_allowed_any(n) == n >= 1

\* the test of ProcessManager::release on the strong count it reads
release_allowed(n) == n <= 1

\* ProcessManager::release(pid i): the registry afterwards, and whether the
\* call panicked.  The count that release reads includes the clone that its
\* own call of find has just made.
release(reg, refs, i) ==
    LET o == find(reg, i) IN
    IF o = NoPcb
    THEN [reg |-> reg, panic |-> FALSE]
    ELSE IF release_allowed(strong_count(reg, refs, o) + 1)
         THEN [reg |-> [reg EXCEPT ![i] = NoPcb], panic |-> FALSE]
         ELSE [reg |-> reg, panic |-> TRUE]

\* Drop for ProcessControlBlock, run when the last strong reference to PCB o
\* of all has gone: it calls release with the pid of o
drop_pcb(reg, refs, o) == release(reg, refs, pid(o))

\* ProcessManager::add_pcb(o) on CPU c by a caller that holds a reference to
\* o: the entry under the pid of o becomes o.  A PCB d that the entry held
\* before loses the registry's reference, and is dropped if that was its last.
r_add_pcb(c, o) ==
    /\ ncalls < MaxCalls
    /\ pc[c] = "run"
    /\ strong_refs[o] >= 1
    /\ LET d   == find(ALL_PROCESS, pid(o))
           reg == [ALL_PROCESS EXCEPT ![pid(o)] = o]
           r   == IF d \notin {NoPcb, o} /\ strong_refs[d] = 0
                  THEN drop_pcb(reg, strong_refs, d)
                  ELSE [reg |-> reg, panic |-> FALSE]
       IN /\ ALL_PROCESS' = r.reg
          /\ pc' = IF r.panic THEN [pc EXCEPT ![c] = "panic"] ELSE pc
          /\ ret' = Ret("add_pcb", o, IF r.panic THEN "panic" ELSE "-", "-", "-")
    /\ ncalls' = ncalls + 1
    /\ UNCHANGED << strong_refs, procvars >>

\* ProcessManager::find(pid i), the handle it returns dropped again
r_find(i) ==
    /\ ncalls < MaxCalls
    /\ ret' = Ret("find", find(ALL_PROCESS, i),
                  IF find(ALL_PROCESS, i) = NoPcb THEN "None" ELSE "Some", "-", "-")
    /\ ncalls' = ncalls + 1
    /\ UNCHANGED << regvars, pc, procvars >>

\* a holder of a strong reference to PCB o clones it
r_clone(o) ==
    /\ ncalls < MaxCalls
    /\ strong_refs[o] >= 1
    /\ strong_refs[o] < MaxRefs
    /\ strong_refs' = [strong_refs EXCEPT ![o] = @ + 1]
    /\ ret' = Ret("clone", o, "-", "-", "-")
    /\ ncalls' = ncalls + 1
    /\ UNCHANGED << ALL_PROCESS, pc, procvars >>

\* on CPU c a holder outside the registry drops its strong reference to PCB
\* o; if it was the last of all the PCB is dropped
r_drop(c, o) ==
    /\ ncalls < MaxCalls
    /\ pc[c] = "run"
    /\ strong_refs[o] >= 1
    /\ LET refs == [strong_refs EXCEPT ![o] = @ - 1]
           r    == IF strong_count(ALL_PROCESS, refs, o) = 0
                   THEN drop_pcb(ALL_PROCESS, refs, o)
                   ELSE [reg |-> ALL_PROCESS, panic |-> FALSE]
       IN /\ strong_refs' = refs
          /\ ALL_PROCESS' = r.reg
          /\ pc' = IF r.panic THEN [pc EXCEPT ![c] = "panic"] ELSE pc
          /\ ret' = Ret("drop", o, IF r.panic THEN "panic" ELSE "-", "-", "-")
    /\ ncalls' = ncalls + 1
    /\ UNCHANGED procvars

\* ProcessManager::release(pid i) called on CPU c
r_release(c, i) ==
    /\ ncalls < MaxCalls
    /\ pc[c] = "run"
    /\ LET r == release(ALL_PROCESS, strong_refs, i)
       IN /\ ALL_PROCESS' = r.reg
          /\ pc' = IF r.panic THEN [pc EXCEPT ![c] = "panic"] ELSE pc
          /\ ret' = Ret("release", find(ALL_PROCESS, i),
                        IF r.panic THEN "panic" ELSE "-", "-", "-")
    /\ ncalls' = ncalls + 1
    /\ UNCHANGED << strong_refs, procvars >>

NextRegistry ==
    \/ \E c \in CPUs, o \in Pcbs : r_add_pcb(c, o)
    \/ \E i \in Pids : r_find(i)
    \/ \E o \in Pcbs : r_clone(o)
    \/ \E c \in CPUs, o \in Pcbs : r_drop(c, o)
    \/ \E c \in CPUs, i \in Pids : r_release(c, i)

SpecRegistry == Init /\ [][NextRegistry]_vars

\* C18: add_pcb(o) makes o the entry under its pid, whatever the entry was;
\* find(p) returns the entry under p and none when there is no entry; no
\* other operation than add_pcb and release changes an entry; and when the
\* last strong reference to a PCB outside the registry is dropped, the PCB is
\* no longer the entry under its pid.
C18_RegistryLookup ==
    [][/\ \A c \in CPUs, o \in Pcbs :
            r_add_pcb(c, o) => ALL_PROCESS'[pid(o)] = o
       /\ \A i \in Pids :
            r_find(i) => /\ ret'.pcb = ALL_PROCESS[i]
                         /\ (ret'.res = "None") <=> (ALL_PROCESS[i] = NoPcb)
                         /\ ALL_PROCESS' = ALL_PROCESS
       /\ \A o \in Pcbs : r_clone(o) => ALL_PROCESS' = ALL_PROCESS
       /\ \A c \in CPUs, o \in Pcbs :
            (r_drop(c, o) /\ strong_refs'[o] = 0) => ALL_PROCESS'[pid(o)] # o]_vars

\* C19: release(pid) of a registered PCB to which a strong reference outside
\* the registry exists panics, and leaves the registry and the references
\* as they were.
C19_ReleaseReferenced ==
    [][\A c \in CPUs, i \in Pids :
          (/\ r_release(c, i)
           /\ ALL_PROCESS[i] # NoPcb
           /\ strong_refs[ALL_PROCESS[i]] >= 1)
              => /\ ret'.res = "panic"
                 /\ pc'[c] = "panic"
                 /\ UNCHANGED regvars]_vars

\* release has panicked on a PCB that is referenced outside the registry, and
\* the PCB is still the entry under its pid
C19_Witness ==
    /\ ret.op = "release" /\ ret.res = "panic"
    /\ ret.pcb \in Pcbs
    /\ ALL_PROCESS[pid(ret.pcb)] = ret.pcb
    /\ strong_refs[ret.pcb] >= 1
    /\ \E c \in CPUs : pc[c] = "panic"

\* C20: release(pid) of a registered PCB whose only strong reference is the
\* registry's returns without a panic and removes the entry, so that find(pid)
\* then returns none; release of a pid with no entry changes nothing.
C20_ReleaseUnreferenced ==
    [][\A c \in CPUs, i \in Pids :
          r_release(c, i)
              => IF ALL_PROCESS[i] = NoPcb
                 THEN UNCHANGED << regvars, pc >>
                 ELSE strong_refs[ALL_PROCESS[i]] = 0
                          => /\ ret'.res # "panic"
                             /\ pc' = pc
                             /\ find(ALL_PROCESS', i) = NoPcb]_vars

-----------------------------------------------------------------------------
(* Properties of mark_sleep, of the virtual runtimes and of the membership *)
(* of the run queues.                                                       *)

\* C22: mark_sleep(interruptible) by a process that has not exited returns
\* Ok, sets the state of the caller to Blocked(interruptible) and raises its
\* needs-reschedule flag, and changes nothing else: no other state or flag,
\* no current process, no run queue, no virtual runtime, no jiffies.
C22_MarkSleepOnly ==
    [][\A c \in CPUs, b \in BOOLEAN :
          (mark_sleep(c, b) /\ ~ is_exited(state[current[c]]))
              => LET p == current[c] IN
                 /\ ret'.res = Ok
                 /\ state' = [state EXCEPT ![p] = Blocked(b)]
                 /\ need_sched' = [need_sched EXCEPT ![p] = TRUE]
                 /\ UNCHANGED << current, cpu_queue, virtual_runtime,
                                 cpu_exec_proc_jiffies, pc, children >>]_vars

\* a process that was Blocked already has called mark_sleep again: it is
\* Blocked as it asked, its flag is up and it is still the current process
C22_Witness ==
    /\ ret.op = "mark_sleep" /\ ret.res = Ok /\ ret.was = "Blocked"
    /\ state[ret.pcb] = Blocked(TRUE)
    /\ need_sched[ret.pcb]
    /\ \E c \in CPUs : current[c] = ret.pcb /\ pc[c] = "run"

\* C29: no step lowers the virtual runtime of a process.
C29_VruntimeMonotone ==
    [][\A p \in Pcbs : virtual_runtime'[p] >= virtual_runtime[p]]_vars

\* C29, as the code has it: a virtual runtime changes in two ways only.  The
\* timer update adds one to that of the current process of its CPU; the
\* enqueue of wakeup sets that of the woken PCB to the virtual runtime of the
\* first entity of the run queue of its CPU when that queue is not empty, be
\* it lower or higher.
C29_VruntimeChanges ==
    [][/\ \A p \in Pcbs :
            virtual_runtime'[p] # virtual_runtime[p]
                => \/ \E c \in CPUs :
                          /\ timer_update_jiffies(c) /\ current[c] = p
                          /\ virtual_runtime'[p] = virtual_runtime[p] + 1
                   \/ \E c \in CPUs : wakeup_enqueue(c) /\ arg[c] = p
       /\ \A c \in CPUs :
            (wakeup_enqueue(c) /\ Len(cpu_queue[on_cpu(arg[c])]) > 0)
                => virtual_runtime'[arg[c]] =
                       min_vruntime(cpu_queue[on_cpu(arg[c])], virtual_runtime)]_vars

\* init has run on CPU 0 since the start and through the one timer tick of
\* that CPU, which took its virtual runtime to 1; it has marked itself asleep
\* and the wakeup that followed has put it back to 0, the key of pid 2
C29_Witness ==
    /\ ret.op = "wakeup" /\ ret.res = Ok /\ ret.pcb = init_pcb
    /\ current[0] = init_pcb
    /\ cpu_exec_proc_jiffies[0] = 0 - 1
    /\ virtual_runtime[init_pcb] = 0
    /\ Count(cpu_queue[0], init_pcb) = 1

\* C30: a process is in the run queues at most once, and not at all while it
\* is the current process of a CPU.
C30_QueuedOnceNotRunning ==
    \A p \in Procs :
        /\ CountAll(cpu_queue, p) <= 1
        /\ (\E c \in CPUs : current[c] = p) => CountAll(cpu_queue, p) = 0

-----------------------------------------------------------------------------
(* sched() entered with any remaining jiffies.  On each CPU a process runs  *)
(* and another waits in the run queue; they have run for some ticks or for  *)
(* none, and the slice of the CPU is used up, overdrawn or not used up.     *)

\* the remaining jiffies a CPU starts with
SliceLeft == {0 - 1, 0, 3}

InitSched ==
    \E v \in [{init_pcb, 3, 5} -> 0..1], j \in [CPUs -> SliceLeft] :
        /\ state = [p \in Pcbs |-> IF p = 4 THEN Blocked(TRUE) ELSE Runnable]
        /\ need_sched = [p \in Pcbs |-> FALSE]
        /\ virtual_runtime = [p \in Pcbs |-> IF p \in DOMAIN v THEN v[p] ELSE 0]
        /\ sched_info_lock = [p \in Pcbs |-> NoCpu]
        /\ children = [p \in Pcbs |-> IF p = init_pcb THEN {3}
                                      ELSE IF p = 3 THEN {4, 5} ELSE {}]
        /\ called_exit = {}
        /\ cpu_queue = [c \in CPUs |-> IF c = 0 THEN << PcbEntry(3, v[3]) >>
                                                 ELSE << PcbEntry(5, v[5]) >>]
        /\ cpu_exec_proc_jiffies = j
        /\ current = [c \in CPUs |-> IF c = 0 THEN init_pcb ELSE idle_pcb(c)]
        /\ pc = [c \in CPUs |-> "run"]
        /\ arg = [c \in CPUs |-> NoPcb]
        /\ ncalls = 0
        /\ ret = NoRet
        /\ ALL_PROCESS = registry_after_boot
        /\ strong_refs = strong_refs_after_boot
        /\ MgrAfterBoot

NextSched ==
    \/ \E c \in CPUs : do_sched(c)
    \/ \E c \in CPUs : timer_update_jiffies(c)
    \/ \E c \in CPUs, b \in BOOLEAN : mark_sleep(c, b)
    \/ \E c \in CPUs, x \in ExitCodes : exit(c, x)
    \/ \E c \in CPUs : exit_sched(c)

SpecSched == InitSched /\ [][NextSched]_vars

-----------------------------------------------------------------------------
(* The context switch and ProcessManager::switch_finish_hook.  The switch   *)
(* itself is architecture code: it takes the arch_info locks of the two     *)
(* PCBs, leaks the guards, records the two PCBs in SWITCH_RESULT of its CPU *)
(* and changes stacks; the hook runs next on that CPU.                      *)

\* a variant of force_unlock that leaves the lock as it is
force_unlock_skipped(locks, p) == locks

\* SpinLock::force_unlock on the arch_info lock of PCB p
force_unlock(locks, p) == [locks EXCEPT ![p] = FALSE]

\* the switch of CPU c from its current process to PCB next
switch_process(c, next) ==
    LET prev == current[c] IN
    /\ ncalls < MaxCalls
    /\ pc[c] = "run"
    /\ next # prev
    /\ \A d \in CPUs : current[d] # next
    /\ ~ arch_info[prev] /\ ~ arch_info[next]
    /\ arch_info' = [arch_info EXCEPT ![prev] = TRUE, ![next] = TRUE]
    /\ SWITCH_RESULT' = [SWITCH_RESULT EXCEPT
                            ![c] = [prev_pcb |-> prev, next_pcb |-> next]]
    /\ current' = [current EXCEPT ![c] = next]
    /\ pc' = [pc EXCEPT ![c] = "switch_finish_hook"]
    /\ ret' = Ret("switch", next, "-", "-", "-")
    /\ ncalls' = ncalls + 1
    /\ UNCHANGED << state, need_sched, virtual_runtime, sched_info_lock, children,
                    called_exit, cpu_queue, cpu_exec_proc_jiffies, arg, regvars,
                    bootvars, groupvars, familyvars >>

\* ProcessManager::switch_finish_hook on CPU c: the locks, the record of the
\* CPU and whether an expect() failed.  Each record is taken before it is
\* tested, the first before the second.
hook(c) ==
    LET prev == SWITCH_RESULT[c].prev_pcb
        next == SWITCH_RESULT[c].next_pcb
    IN  IF prev = NoPcb
        THEN [locks |-> arch_info, sr |-> SWITCH_RESULT[c], panic |-> TRUE]
        ELSE IF next = NoPcb
        THEN [locks |-> arch_info, sr |-> NoSwitch, panic |-> TRUE]
        ELSE [locks |-> force_unlock(force_unlock(arch_info, prev), next),
              sr |-> NoSwitch, panic |-> FALSE]

\* the effect of the hook on CPU c on the variables
hook_effect(c) ==
    LET r == hook(c) IN
    /\ arch_info' = r.locks
    /\ SWITCH_RESULT' = [SWITCH_RESULT EXCEPT ![c] = r.sr]
    /\ pc' = [pc EXCEPT ![c] = IF r.panic THEN "panic" ELSE "run"]
    /\ ret' = Ret("switch_finish_hook", SWITCH_RESULT[c].next_pcb,
                  IF r.panic THEN "panic" ELSE Ok, "-", "-")
    /\ UNCHANGED << state, need_sched, virtual_runtime, sched_info_lock, children,
                    called_exit, cpu_queue, cpu_exec_proc_jiffies, current, arg,
                    regvars, bootvars, groupvars, familyvars >>

\* the hook called on CPU c when the switch has landed on the new stack
switch_finish_hook(c) ==
    /\ pc[c] = "switch_finish_hook"
    /\ hook_effect(c)
    /\ ncalls' = ncalls

\* the hook called on CPU c with no switch before it
hook_call(c) ==
    /\ pc[c] = "run"
    /\ ncalls < MaxCalls
    /\ hook_effect(c)
    /\ ncalls' = ncalls + 1

NextSwitch ==
    \/ \E c \in CPUs, next \in Pcbs : switch_process(c, next)
    \/ \E c \in CPUs : switch_finish_hook(c)
    \/ \E c \in CPUs : hook_call(c)

SpecSwitch == Init /\ [][NextSwitch]_vars

HookStep(c) == switch_finish_hook(c) \/ hook_call(c)

\* C21: the locks that are held across a context switch, on the outgoing and
\* on the incoming PCB, are their scheduling-info locks, and the hook
\* releases them: when the hook has both PCBs on record, the CPU holds the
\* scheduling-info locks of both before the hook and neither after it, and
\* the record of the CPU is cleared.
C21_HookReleasesSchedInfo ==
    [][\A c \in CPUs :
          (HookStep(c) /\ SWITCH_RESULT[c].prev_pcb # NoPcb
                       /\ SWITCH_RESULT[c].next_pcb # NoPcb)
              => /\ sched_info_lock[SWITCH_RESULT[c].prev_pcb] = c
                 /\ sched_info_lock[SWITCH_RESULT[c].next_pcb] = c
                 /\ sched_info_lock'[SWITCH_RESULT[c].prev_pcb] = NoCpu
                 /\ sched_info_lock'[SWITCH_RESULT[c].next_pcb] = NoCpu
                 /\ SWITCH_RESULT'[c] = NoSwitch]_vars

\* C21, as the code has it: the locks held across a context switch are the
\* arch_info locks of the two PCBs.  A hook that has both PCBs on record
\* releases the arch_info locks of both, clears the record of its CPU and
\* returns, and touches no other arch_info lock and no scheduling-info lock;
\* a hook that lacks either record panics and releases nothing.
C21_HookReleasesArchInfo ==
    [][\A c \in CPUs :
          HookStep(c)
              => LET prev == SWITCH_RESULT[c].prev_pcb
                     next == SWITCH_RESULT[c].next_pcb
                 IN  /\ sched_info_lock' = sched_info_lock
                     /\ IF prev # NoPcb /\ next # NoPcb
                        THEN /\ arch_info[prev] /\ arch_info[next]
                             /\ ~ arch_info'[prev] /\ ~ arch_info'[next]
                             /\ \A p \in Pcbs \ {prev, next} :
                                    arch_info'[p] = arch_info[p]
                             /\ SWITCH_RESULT'[c] = NoSwitch
                             /\ pc'[c] = "run"
                        ELSE /\ pc'[c] = "panic"
                             /\ arch_info' = arch_info]_vars

\* the hook has returned on a CPU after a switch to the process that now
\* runs there: the CPU has no switch on record and no arch_info lock is held
C21_Witness ==
    /\ ret.op = "switch_finish_hook" /\ ret.res = Ok
    /\ \E c \in CPUs :
          /\ current[c] = ret.pcb /\ pc[c] = "run"
          /\ SWITCH_RESULT[c] = NoSwitch
    /\ \A p \in Pcbs : ~ arch_info[p]

-----------------------------------------------------------------------------
(* ProcessManager::init and the creation of PCBs, from the start of the    *)
(* kernel: no table is installed, no PCB exists and no pid has been given. *)

\* ALL_PROCESS before the table is installed: None
NoTable == << >>
\* HashMap::new(): a table with no entry
EmptyTable == [i \in Pids |-> NoPcb]

\* the start of the kernel: every CPU
\* runs the boot context that becomes its idle process, nothing is queued
InitBoot ==
    /\ state = [p \in Pcbs |-> Runnable]
    /\ need_sched = [p \in Pcbs |-> FALSE]
    /\ virtual_runtime = [p \in Pcbs |-> 0]
    /\ sched_info_lock = [p \in Pcbs |-> NoCpu]
    /\ children = [p \in Pcbs |-> {}]
    /\ called_exit = {}
    /\ cpu_queue = [c \in CPUs |-> << >>]
    /\ cpu_exec_proc_jiffies = [c \in CPUs |-> 0]
    /\ current = [c \in CPUs |-> idle_pcb(c)]
    /\ pc = [c \in CPUs |-> "run"]
    /\ arg = [c \in CPUs |-> NoPcb]
    /\ ncalls = 0
    /\ ret = NoRet
    /\ ALL_PROCESS = NoTable
    /\ strong_refs = [p \in Pcbs |-> 0]
    /\ arch_info = [p \in Pcbs |-> FALSE]
    /\ SWITCH_RESULT = [c \in CPUs |-> NoSwitch]
    /\ INIT_FLAG = FALSE
    /\ INIT_DONE = FALSE
    /\ NEXT_PID = 1
    /\ handed = << >>
    /\ sched_entity = << >>
    /\ tg_queue = << >>
    /\ PROCESS_GROUP_MANAGER = << >>
    /\ parent_pcb = [p \in Pcbs |-> NoPcb]

\* the variables that init and the pid assignment of do_create_pcb leave alone
restvars == << state, need_sched, virtual_runtime, sched_info_lock, children,
               called_exit, cpu_queue, cpu_exec_proc_jiffies, current, arg,
               switchvars, tg_queue, PROCESS_GROUP_MANAGER, familyvars >>

\* a variant of compare_exchange that stores the new value whatever it finds
compare_exchange_blind(flag, cur, new) == [ok |-> TRUE, val |-> new]

\* AtomicBool::compare_exchange(cur, new): whether it found cur, and the value
\* of the flag afterwards
compare_exchange(flag, cur, new) ==
    [ok |-> flag = cur, val |-> IF flag = cur THEN new ELSE flag]

\* ProcessManager::init called on CPU c, up to the test of the flag: a call
\* that finds the flag set panics
init_call(c) ==
    LET r == compare_exchange(INIT_FLAG, FALSE, TRUE) IN
    /\ ncalls < MaxCalls
    /\ pc[c] = "run"
    /\ INIT_FLAG' = r.val
    /\ pc' = [pc EXCEPT ![c] = IF r.ok THEN "init_table" ELSE "panic"]
    /\ ret' = Ret("init", NoPcb, IF r.ok THEN "-" ELSE "panic", "-", "-")
    /\ ncalls' = ncalls + 1
    /\ UNCHANGED << regvars, INIT_DONE, NEXT_PID, handed, sched_entity, restvars >>

\* init on CPU c installs the empty table (line 102)
init_table(c) ==
    /\ pc[c] = "init_table"
    /\ ALL_PROCESS' = EmptyTable
    /\ pc' = [pc EXCEPT ![c] = "init_idle"]
    /\ UNCHANGED << strong_refs, bootvars, sched_entity, restvars, ncalls, ret >>

\* init on CPU c builds the idle process of every CPU (init_idle, line 105):
\* each is a PCB of pid 0 that its kernel stack refers to
init_idle(c) ==
    /\ pc[c] = "init_idle"
    /\ strong_refs' = [p \in Pcbs |-> IF p \in CPUs THEN 1 ELSE strong_refs[p]]
    /\ handed' = handed \o [i \in 1..Cardinality(CPUs) |-> Handed(c, TRUE, 0)]
    /\ sched_entity' = [e \in DOMAIN sched_entity \cup { SeOfPcb(idle_pcb(d)) : d \in CPUs }
                           |-> IF e \in DOMAIN sched_entity THEN sched_entity[e]
                               ELSE NewSchedEntity]
    /\ pc' = [pc EXCEPT ![c] = "init_done"]
    /\ UNCHANGED << ALL_PROCESS, INIT_FLAG, INIT_DONE, NEXT_PID, restvars, ncalls, ret >>

\* init on CPU c marks the initialisation complete and returns (lines 108-111)
init_done(c) ==
    /\ pc[c] = "init_done"
    /\ INIT_DONE' = TRUE
    /\ pc' = [pc EXCEPT ![c] = "run"]
    /\ ret' = Ret("init", NoPcb, Ok, "-", "-")
    /\ UNCHANGED << regvars, INIT_FLAG, NEXT_PID, handed, sched_entity, restvars, ncalls >>

\* a variant of fetch_add that forgets to store the sum
fetch_add_kept(n, d) == [old |-> n, new |-> n]

\* AtomicPid::fetch_add(d): the value it returns and the value it leaves
fetch_add(n, d) == [old |-> n, new |-> n + d]

\* the pid that do_create_pcb gives to a new PCB (lines 437-445), and the
\* counter of generate_pid afterwards
new_pid(next_pid, is_idle) ==
    IF is_idle THEN [pid |-> 0, next |-> next_pid]
    ELSE LET r == fetch_add(next_pid, 1) IN [pid |-> r.old, next |-> r.new]

\* ProcessControlBlock::do_create_pcb on CPU c, as far as the pid goes
do_create_pcb(c, is_idle) ==
    LET r == new_pid(NEXT_PID, is_idle) IN
    /\ ncalls < MaxCalls
    /\ pc[c] = "run"
    /\ NEXT_PID' = r.next
    /\ handed' = Append(handed, Handed(c, is_idle, r.pid))
    /\ ret' = Ret("do_create_pcb", NoPcb, "-", "-", "-")
    /\ ncalls' = ncalls + 1
    /\ UNCHANGED << regvars, INIT_FLAG, INIT_DONE, pc, sched_entity, restvars >>

NextBoot ==
    \/ \E c \in CPUs : init_call(c)
    \/ \E c \in CPUs : init_table(c)
    \/ \E c \in CPUs : init_idle(c)
    \/ \E c \in CPUs : init_done(c)
    \/ \E c \in CPUs, is_idle \in BOOLEAN : do_create_pcb(c, is_idle)

SpecBoot == InitBoot /\ [][NextBoot]_vars

\* the steps of init after the test of the flag
InitSteps == {"init_table", "init_idle", "init_done"}

\* C23: of the calls of init, the one that finds the flag clear sets it and
\* goes on to install the empty table, build the idle processes and mark the
\* initialisation complete; every call that finds the flag set panics and
\* changes neither the table nor the PCBs nor the mark.  At most one CPU is
\* ever inside the initialisation, the flag is never cleared, and the mark is
\* set only when the table is installed and the idle processes exist.
C23_InitOnce ==
    [][/\ \A c \in CPUs :
            init_call(c)
                => IF INIT_FLAG
                   THEN /\ pc'[c] = "panic"
                        /\ UNCHANGED << regvars, INIT_FLAG, INIT_DONE, handed >>
                   ELSE /\ INIT_FLAG' /\ pc'[c] = "init_table"
                        /\ \A d \in CPUs : pc[d] \notin InitSteps
       /\ Cardinality({c \in CPUs : pc'[c] \in InitSteps}) <= 1
       /\ INIT_FLAG => INIT_FLAG'
       /\ ALL_PROCESS # NoTable => ALL_PROCESS' = ALL_PROCESS
       /\ INIT_DONE' => /\ ALL_PROCESS' = EmptyTable
                       /\ \A c \in CPUs : strong_refs'[idle_pcb(c)] >= 1]_vars

\* one CPU has completed the initialisation and the other has panicked in its
\* own call of init; the table is installed and empty
C23_Witness ==
    /\ INIT_DONE
    /\ ALL_PROCESS = EmptyTable
    /\ \E c \in CPUs : pc[c] = "panic"
    /\ \E c \in CPUs : pc[c] = "run"
    /\ ret.op = "init"

\* the records of handed that are not of an idle process
NonIdle(h) == SelectSeq(h, LAMBDA r : ~ r.is_idle)

\* C24: the pids given to PCBs that are not idle are at least 1 and strictly
\* increasing in the order they were given, hence pairwise distinct, on
\* whichever CPUs the PCBs were created; they are below the counter; an idle
\* PCB has pid 0.
C24_PidsIncrease ==
    LET h == NonIdle(handed) IN
    /\ \A i \in 1..Len(h) : h[i].pid >= 1 /\ h[i].pid < NEXT_PID
    /\ \A i, j \in 1..Len(h) : i < j => h[i].pid < h[j].pid
    /\ \A i \in 1..Len(handed) : handed[i].is_idle => handed[i].pid = 0

\* three PCBs that are not idle have been created, the first and the last on
\* different CPUs, and an idle PCB among them
C24_Witness ==
    LET h == NonIdle(handed) IN
    /\ Len(h) = 3
    /\ h[1].cpu # h[3].cpu
    /\ Len(handed) > Len(h)
    /\ ret.op = "do_create_pcb"

-----------------------------------------------------------------------------
(* Task groups (TaskGroup::new, init_group_se) and process groups           *)
(* (ProcessGroupManager).                                                   *)

\* the task groups that TaskGroup::new makes, the process group ids and the
\* pids that the calls below are made with
NewGroups == {1, 2}
Pgids == {0, 1, 2}
MemberPids == {1, 2}

\* the variables that the operations on groups leave alone
nongroupvars == << state, need_sched, virtual_runtime, sched_info_lock, children,
                   called_exit, cpu_queue, cpu_exec_proc_jiffies, current, arg,
                   regvars, switchvars, bootvars, familyvars >>

\* TaskGroup::new(ptg) makes task group g: a scheduling entity from
\* SchedEntity::new for every CPU, and a scheduler with an empty queue for
\* every CPU
TaskGroup_new(g) ==
    /\ ncalls < MaxCalls
    /\ g \notin DOMAIN tg_queue
    /\ sched_entity' = [e \in DOMAIN sched_entity \cup { SeOfGroup(g, c) : c \in CPUs }
                           |-> IF e \in DOMAIN sched_entity THEN sched_entity[e]
                               ELSE NewSchedEntity]
    /\ tg_queue' = Put(tg_queue, g, [c \in CPUs |-> << >>])
    /\ ret' = Ret("TaskGroup::new", NoPcb, "-", "-", "-")
    /\ ncalls' = ncalls + 1
    /\ UNCHANGED << PROCESS_GROUP_MANAGER, pc, nongroupvars >>

\* TaskGroup::init_group_se(ptg, ntg) called on ntg: for every CPU the entity
\* of ntg gets the queue of ptg as cfs_rq and the queue of ntg as my_q, and
\* ntg.cfs.enqueue_group_se puts it into the queue of ntg's own scheduler
init_group_se(ptg, ntg) ==
    /\ ncalls < MaxCalls
    /\ ptg \in DOMAIN tg_queue /\ ntg \in DOMAIN tg_queue
    /\ ntg \in NewGroups /\ ptg # ntg
    /\ sched_entity' =
           [e \in DOMAIN sched_entity |->
               IF e[1] = "group" /\ e[2] = ntg
               THEN [sched_entity[e] EXCEPT !.cfs_rq = QueueOf(ptg, e[3]),
                                            !.my_q = QueueOf(ntg, e[3])]
               ELSE sched_entity[e]]
    /\ tg_queue' = [tg_queue EXCEPT
                       ![ntg] = [c \in CPUs |-> enqueue_se(@[c], GroupEntry(ntg, 0))]]
    /\ ret' = Ret("init_group_se", NoPcb, "-", "-", "-")
    /\ ncalls' = ncalls + 1
    /\ UNCHANGED << PROCESS_GROUP_MANAGER, pc, nongroupvars >>

\* ProcessGroupManager::add_group(pgid)
add_group(pgid) ==
    /\ ncalls < MaxCalls
    /\ PROCESS_GROUP_MANAGER' =
           Put(PROCESS_GROUP_MANAGER, pgid, IF pgid # 0 THEN << pgid >> ELSE << >>)
    /\ ret' = Ret("add_group", NoPcb, "-", "-", "-")
    /\ ncalls' = ncalls + 1
    /\ UNCHANGED << sched_entity, tg_queue, pc, nongroupvars >>

\* ProcessGroupManager::add_process(pgid, pid) on CPU c: the unwrap panics
\* when the group has no list
add_process(c, pgid, i) ==
    /\ ncalls < MaxCalls
    /\ pc[c] = "run"
    /\ IF pgid \in DOMAIN PROCESS_GROUP_MANAGER
       THEN /\ PROCESS_GROUP_MANAGER' =
                   Put(PROCESS_GROUP_MANAGER, pgid,
                       Append(PROCESS_GROUP_MANAGER[pgid], i))
            /\ ret' = Ret("add_process", NoPcb, "-", "-", "-")
            /\ pc' = pc
       ELSE /\ ret' = Ret("add_process", NoPcb, "panic", "-", "-")
            /\ pc' = [pc EXCEPT ![c] = "panic"]
            /\ UNCHANGED PROCESS_GROUP_MANAGER
    /\ ncalls' = ncalls + 1
    /\ UNCHANGED << sched_entity, tg_queue, nongroupvars >>

\* Vec::retain(|&x| x != i)
retain_not(l, i) == SelectSeq(l, LAMBDA x : x # i)

\* ProcessGroupManager::set_pgid_by_pid(pid, new_pgid, old_pgid) on the lists
\* m: the lists afterwards and the value returned ("panic" when the unwrap of
\* the old list fails)
set_pgid(m, i, new_pgid, old_pgid) ==
    IF old_pgid \notin DOMAIN m
    THEN [m |-> m, res |-> "panic"]
    ELSE LET m1 == [m EXCEPT ![old_pgid] = retain_not(@, i)] IN
         IF new_pgid \in DOMAIN m1
         THEN [m |-> [m1 EXCEPT ![new_pgid] = Append(@, i)], res |-> "false"]
         ELSE [m |-> Put(m1, new_pgid, << new_pgid >>), res |-> "true"]

\* ProcessGroupManager::set_pgid_by_pid called on CPU c
set_pgid_by_pid(c, i, new_pgid, old_pgid) ==
    LET r == set_pgid(PROCESS_GROUP_MANAGER, i, new_pgid, old_pgid) IN
    /\ ncalls < MaxCalls
    /\ pc[c] = "run"
    /\ PROCESS_GROUP_MANAGER' = r.m
    /\ ret' = Ret("set_pgid_by_pid", NoPcb, r.res, "-", "-")
    /\ pc' = IF r.res = "panic" THEN [pc EXCEPT ![c] = "panic"] ELSE pc
    /\ ncalls' = ncalls + 1
    /\ UNCHANGED << sched_entity, tg_queue, nongroupvars >>

NextGroup ==
    \/ \E g \in NewGroups : TaskGroup_new(g)
    \/ \E ptg \in NewGroups \cup {RootGroup}, ntg \in NewGroups : init_group_se(ptg, ntg)
    \/ \E pgid \in Pgids : add_group(pgid)
    \/ \E c \in CPUs, pgid \in Pgids, i \in MemberPids : add_process(c, pgid, i)
    \/ \E c \in CPUs, i \in MemberPids, new_pgid \in Pgids, old_pgid \in Pgids :
           set_pgid_by_pid(c, i, new_pgid, old_pgid)

SpecGroup == Init /\ [][NextGroup]_vars

\* whether i is a member of list l
Member(l, i) == \E k \in 1..Len(l) : l[k] = i

\* C25: set_pgid_by_pid(pid, new_pgid, old_pgid), with old_pgid a group that
\* has a list and new_pgid another group, leaves pid out of the list of
\* old_pgid and in the list of new_pgid; it returns true and makes the list
\* when new_pgid had none, and returns false otherwise; the lists of the
\* other groups are as before.
C25_SetPgidMoves ==
    [][\A c \in CPUs, i \in MemberPids, new_pgid \in Pgids, old_pgid \in Pgids :
          (/\ set_pgid_by_pid(c, i, new_pgid, old_pgid)
           /\ old_pgid \in DOMAIN PROCESS_GROUP_MANAGER
           /\ new_pgid # old_pgid)
              => /\ new_pgid \in DOMAIN PROCESS_GROUP_MANAGER'
                 /\ ~ Member(PROCESS_GROUP_MANAGER'[old_pgid], i)
                 /\ Member(PROCESS_GROUP_MANAGER'[new_pgid], i)
                 /\ ret'.res = IF new_pgid \in DOMAIN PROCESS_GROUP_MANAGER
                               THEN "false" ELSE "true"
                 /\ \A g \in DOMAIN PROCESS_GROUP_MANAGER \ {new_pgid, old_pgid} :
                        PROCESS_GROUP_MANAGER'[g] = PROCESS_GROUP_MANAGER[g]]_vars

\* C26: every scheduling entity that exists either has a PCB and owns no run
\* queue, or owns a run queue and has no PCB.
C26_EntityKinds ==
    \A e \in DOMAIN sched_entity :
        (sched_entity[e].pcb # NoPcb) # (sched_entity[e].my_q # NoQueue)

\* C28: after init_group_se(ptg, ntg), for every CPU c the entity of ntg for
\* c has the queue of c of ptg as cfs_rq and the queue of c of ntg as my_q,
\* and it is an entry of the queue of ptg that it is linked to, where the
\* scheduler of ptg picks it, and not an entry of the queue that it owns.
C28_GroupEntityLinked ==
    [][\A ptg \in NewGroups \cup {RootGroup}, ntg \in NewGroups :
          init_group_se(ptg, ntg)
              => \A c \in CPUs :
                    /\ sched_entity'[SeOfGroup(ntg, c)].cfs_rq = QueueOf(ptg, c)
                    /\ sched_entity'[SeOfGroup(ntg, c)].my_q = QueueOf(ntg, c)
                    /\ \E k \in 1..Len(tg_queue'[ptg][c]) :
                          tg_queue'[ptg][c][k] = GroupEntry(ntg, 0)
                    /\ \A k \in 1..Len(tg_queue'[ntg][c]) :
                          tg_queue'[ntg][c][k] # GroupEntry(ntg, 0)]_vars

-----------------------------------------------------------------------------
(* Conservation of the run queue by sched().                               *)

\* C31: a call of sched() that returns loses no process: every PCB has as
\* many entries in the run queue of the CPU afterwards as before, but for
\* the one entry of the PCB that sched() returns as the next context when it
\* reports a switch.
C31_SchedConserves ==
    [][\A c \in CPUs :
          (SchedStep(c) /\ ret'.res \in {"Some", "None"})
              => \A p \in Procs :
                    Count(cpu_queue'[c], p)
                        + (IF ret'.res = "Some" /\ ret'.pcb = p THEN 1 ELSE 0)
                    >= Count(cpu_queue[c], p)]_vars

-----------------------------------------------------------------------------
(* The parent reference and the child maps.                                *)

\* Weak::upgrade of parent reference w: the PCB it refers to while that PCB
\* has a strong reference left, none otherwise
upgrade(reg, refs, w) ==
    IF w # NoPcb /\ strong_count(reg, refs, w) > 0 THEN w ELSE NoPcb

\* C32: for every PCB ch of pid above 1 and every PCB p, ch is in the child
\* map of p exactly if the parent reference of ch resolves to p.
C32_ParentChildConsistent ==
    \A ch \in Procs, p \in Pcbs :
        pid(ch) > 1
            => (ch \in children[p]
                    <=> upgrade(ALL_PROCESS, strong_refs, parent_pcb[ch]) = p)

====
